---------------------------- MODULE Spec2Model ----------------------------
(***************************************************************************)
(* A model of the web store: the fixed catalog (StoreService), the Cart    *)
(* aggregate, the session dependencies that load and save the cart, and    *)
(* the request handlers of the store and checkout routers.                 *)
(*                                                                         *)
(* Item names are sequences of one-character strings, so that stripping,   *)
(* case and length are computed rather than assumed.                       *)
(***************************************************************************)
EXTENDS Integers, Sequences, FiniteSets, TLC

VARIABLES
    session,   \* request.session, a dict: a set of <<key, value>> pairs
    req,       \* the last request: endpoint and its form/body field
    before,    \* request.session as it was when the last request arrived
    resp,      \* the last response, and what the handler did to produce it
    vcart,     \* validate_cart probe: the cart argument
    vmax,      \* validate_cart probe: the max_items argument
    vres,      \* validate_cart probe: the outcome
    flight,    \* concurrent requests: what each client connection has in flight
    arrived,   \* concurrent requests: the session the last answered one came with
    lastWrite  \* concurrent requests: the last call of update_shopping_cart

vars == <<session, req, before, resp, vcart, vmax, vres, flight, arrived, lastWrite>>

appVars == <<session, req, before, resp>>

probeVars == <<vcart, vmax, vres>>

concVars == <<flight, arrived, lastWrite>>

---------------------------------------------------------------------------
(* Bounds of the exploration.                                              *)

\* add requests are explored while the stored item_count is below MaxCount
MaxCount == 52

\* lines other than Pizza are explored up to this quantity
MaxSideQty == 2

\* the validate_cart probe draws quantities from 0..MaxProbeQty around the limit
MaxProbeQty == 2

\* concurrent add requests are sent while the stored item_count is below
\* MaxConcCount
MaxConcCount == 2

---------------------------------------------------------------------------
(* Text.                                                                   *)

Pizza == <<"P","i","z","z","a">>

Fries == <<"F","r","i","e","s">>

Cookie == <<"C","o","o","k","i","e">>

Hotdog == <<"H","o","t","d","o","g">>

Chocolate == <<"C","h","o","c","o","l","a","t","e">>

Carrot == <<"C","a","r","r","o","t">>

Tomato == <<"T","o","m","a","t","o">>

Corn == <<"C","o","r","n">>

Tea == <<"T","e","a">>

Icecream == <<"I","c","e","c","r","e","a","m">>

LowerPizza == <<"p","i","z","z","a">>

PaddedPizza == <<" ","P","i","z","z","a"," ">>

InvalidItem == <<"I","n","v","a","l","i","d","I","t","e","m">>

ActionWord == <<"a","c","t","i","o","n">>

ScriptTag == <<"<","s","c","r","i","p","t",">">>

ScriptEnd == <<"<","/","s","c","r","i","p","t",">">>

XssName == ScriptTag \o <<"x">> \o ScriptEnd

AmpName == <<"F","i","s","h"," ","&"," ","C","h","i","p","s">>

EmptyName == << >>

LongName == [i \in 1..51 |-> "a"]

LowerCase == <<"a","b","c","d","e","f","g","h","i","j","k","l","m",
               "n","o","p","q","r","s","t","u","v","w","x","y","z">>

UpperCase == <<"A","B","C","D","E","F","G","H","I","J","K","L","M",
               "N","O","P","Q","R","S","T","U","V","W","X","Y","Z">>

Whitespace == {" ", "\t", "\n", "\r"}

Range(s) == {s[i] : i \in DOMAIN s}

IsLetter(c) == c \in Range(LowerCase) \cup Range(UpperCase)

ToUpper(c) ==
    IF c \in Range(LowerCase)
    THEN UpperCase[CHOOSE i \in DOMAIN LowerCase : LowerCase[i] = c]
    ELSE c

ToLower(c) ==
    IF c \in Range(UpperCase)
    THEN LowerCase[CHOOSE i \in DOMAIN UpperCase : UpperCase[i] = c]
    ELSE c

\* str.title(): a letter is upper-cased after a non-letter, lower-cased after a letter
Title(v) ==
    [i \in DOMAIN v |->
        IF i > 1 /\ IsLetter(v[i - 1]) THEN ToLower(v[i]) ELSE ToUpper(v[i])]

\* str.strip()
Strip(text) ==
    LET keep == {i \in DOMAIN text : text[i] \notin Whitespace}
    IN  IF keep = {} THEN << >>
        ELSE LET lo == CHOOSE i \in keep : \A j \in keep : i <= j
                 hi == CHOOSE i \in keep : \A j \in keep : j <= i
             IN  SubSeq(text, lo, hi)

StartsWithAt(text, i, word) ==
    /\ i + Len(word) - 1 <= Len(text)
    /\ SubSeq(text, i, i + Len(word) - 1) = word

\* nh3.clean on text whose only markup is script elements: a script element
\* is dropped with its content, and & < > are written as entities
RECURSIVE CleanFrom(_, _)
CleanFrom(text, i) ==
    IF i > Len(text) THEN << >>
    ELSE IF StartsWithAt(text, i, ScriptTag)
    THEN LET ends == {j \in i..Len(text) : StartsWithAt(text, j, ScriptEnd)}
         IN  IF ends = {} THEN << >>
             ELSE CleanFrom(text,
                     (CHOOSE j \in ends : \A k \in ends : j <= k) + Len(ScriptEnd))
    ELSE IF text[i] = "&" THEN <<"&","a","m","p",";">> \o CleanFrom(text, i + 1)
    ELSE IF text[i] = "<" THEN <<"&","l","t",";">> \o CleanFrom(text, i + 1)
    ELSE IF text[i] = ">" THEN <<"&","g","t",";">> \o CleanFrom(text, i + 1)
    ELSE <<text[i]>> \o CleanFrom(text, i + 1)

\* nh3.clean: text without markup characters comes back as it is
nh3_clean(text) ==
    IF Range(text) \cap {"&", "<", ">"} = {} THEN text ELSE CleanFrom(text, 1)

sanitize_input(text) ==
    IF Len(text) = 0 THEN << >> ELSE nh3_clean(Strip(text))

---------------------------------------------------------------------------
(* Settings and catalog.                                                   *)

max_cart_items == 50

default_max_items == 50

FoodItem(name, price, category, image, description) ==
    [name |-> Title(name), price |-> price, category |-> category,
     image |-> image, description |-> description]

\* StoreService._initialize_menu: the dict, as its <<key, value>> pairs in
\* definition order
menu_items ==
    << <<Pizza,     FoodItem(Pizza, 1, "junk", "pizza.jpg", "Delicious cheese pizza")>>,
       <<Fries,     FoodItem(Fries, 1, "junk", "fries.jpg", "Crispy golden fries")>>,
       <<Cookie,    FoodItem(Cookie, 1, "junk", "cookie.jpg", "Sweet chocolate chip cookie")>>,
       <<Hotdog,    FoodItem(Hotdog, 1, "junk", "hotdog.jpg", "Classic hotdog with mustard")>>,
       <<Chocolate, FoodItem(Chocolate, 1, "junk", "chocolate.jpg", "Rich milk chocolate bar")>>,
       <<Carrot,    FoodItem(Carrot, 2, "healthy", "carrot.jpg", "Fresh organic carrot")>>,
       <<Tomato,    FoodItem(Tomato, 2, "healthy", "tomato.jpg", "Ripe red tomato")>>,
       <<Corn,      FoodItem(Corn, 2, "healthy", "corn.jpg", "Sweet corn on the cob")>>,
       <<Tea,       FoodItem(Tea, 2, "healthy", "tea.jpg", "Healthy herbal tea")>>,
       <<Icecream,  FoodItem(Icecream, 2, "junk", "icecream.jpg", "Vanilla ice cream cone")>> >>

MenuKeys == {menu_items[i][1] : i \in DOMAIN menu_items}

MenuValue(name) ==
    menu_items[CHOOSE i \in DOMAIN menu_items : menu_items[i][1] = name][2]

NoItem == FoodItem(<< >>, 0, "none", "", "")

NoError == [raised |-> FALSE, status_code |-> 0, message |-> ""]

StoreException(message, status_code) ==
    [raised |-> TRUE, status_code |-> status_code, message |-> message]

get_all_items == menu_items

\* get_item as it would be with the name brought to its canonical title case
\* before the lookup
get_item_title_cased(name) ==
    IF Title(name) \notin MenuKeys
    THEN [error |-> StoreException("Item not found", 404), item |-> NoItem]
    ELSE [error |-> NoError, item |-> MenuValue(Title(name))]

\* StoreService.get_item: the item, or the StoreException it raises
get_item(name) ==
    IF name \notin MenuKeys
    THEN [error |-> StoreException("Item not found", 404), item |-> NoItem]
    ELSE [error |-> NoError, item |-> MenuValue(name)]

\* get_items_by_category as it would be if it told the categories apart by
\* price
get_items_by_category_by_price(category) ==
    LET values == [i \in DOMAIN menu_items |-> menu_items[i][2]]
    IN  SelectSeq(values, LAMBDA item : (item.price = 1) <=> (category = "junk"))

\* StoreService.get_items_by_category: the values of the menu, in its order
get_items_by_category(category) ==
    LET values == [i \in DOMAIN menu_items |-> menu_items[i][2]]
    IN  SelectSeq(values, LAMBDA item : item.category = category)

\* validate_cart as it would be with >= for >
validate_cart_at_limit(cart, max_items) ==
    IF cart.item_count >= max_items
    THEN StoreException("Cart cannot contain more items", 400)
    ELSE IF \E i \in DOMAIN cart.items : cart.items[i].name \notin MenuKeys
    THEN StoreException("Invalid item in cart", 400)
    ELSE NoError

\* StoreService.validate_cart: NoError when it returns True, else what it raises
validate_cart(cart, max_items) ==
    IF cart.item_count > max_items
    THEN StoreException("Cart cannot contain more items", 400)
    ELSE IF \E i \in DOMAIN cart.items : cart.items[i].name \notin MenuKeys
    THEN StoreException("Invalid item in cart", 400)
    ELSE NoError

---------------------------------------------------------------------------
(* Cart.                                                                   *)

CartItem(name, price, image) ==
    [name |-> name, price |-> price, image |-> image, quantity |-> 1]

NewCart == [items |-> << >>, total_cost |-> 0, item_count |-> 0]

\* index of the first line with that name, 0 when there is none
FirstLine(items, name) ==
    IF \E i \in DOMAIN items : items[i].name = name
    THEN CHOOSE i \in DOMAIN items :
            /\ items[i].name = name
            /\ \A j \in DOMAIN items : items[j].name = name => i <= j
    ELSE 0

\* add_item as it would be if a repeat add left total_cost alone
add_item_stale_total(cart, food_item) ==
    LET i == FirstLine(cart.items, food_item.name)
    IN  IF i # 0
        THEN [items      |-> [cart.items EXCEPT ![i].quantity = @ + 1],
              total_cost |-> cart.total_cost,
              item_count |-> cart.item_count + 1]
        ELSE [items      |-> Append(cart.items,
                                CartItem(food_item.name, food_item.price, food_item.image)),
              total_cost |-> cart.total_cost + food_item.price,
              item_count |-> cart.item_count + 1]

\* add_item as it would be without the search for an existing line
add_item_always_appends(cart, food_item) ==
    [items      |-> Append(cart.items,
                       CartItem(food_item.name, food_item.price, food_item.image)),
     total_cost |-> cart.total_cost + food_item.price,
     item_count |-> cart.item_count + 1]

\* add_item as it would be if a repeat add moved the line to the end
add_item_moves_line_to_end(cart, food_item) ==
    LET i == FirstLine(cart.items, food_item.name)
    IN  IF i # 0
        THEN [items      |-> SubSeq(cart.items, 1, i - 1)
                              \o SubSeq(cart.items, i + 1, Len(cart.items))
                              \o <<[cart.items[i] EXCEPT !.quantity = @ + 1]>>,
              total_cost |-> cart.total_cost + food_item.price,
              item_count |-> cart.item_count + 1]
        ELSE [items      |-> Append(cart.items,
                                CartItem(food_item.name, food_item.price, food_item.image)),
              total_cost |-> cart.total_cost + food_item.price,
              item_count |-> cart.item_count + 1]

add_item(cart, food_item) ==
    LET i == FirstLine(cart.items, food_item.name)
    IN  IF i # 0
        THEN [items      |-> [cart.items EXCEPT ![i].quantity = @ + 1],
              total_cost |-> cart.total_cost + food_item.price,
              item_count |-> cart.item_count + 1]
        ELSE [items      |-> Append(cart.items,
                                CartItem(food_item.name, food_item.price, food_item.image)),
              total_cost |-> cart.total_cost + food_item.price,
              item_count |-> cart.item_count + 1]

\* remove_item as it would be if it took one unit off the line
remove_item_one_unit(cart, item_name) ==
    LET i == FirstLine(cart.items, item_name)
    IN  IF i # 0
        THEN [cart |-> [items      |-> IF cart.items[i].quantity > 1
                                       THEN [cart.items EXCEPT ![i].quantity = @ - 1]
                                       ELSE SubSeq(cart.items, 1, i - 1)
                                            \o SubSeq(cart.items, i + 1, Len(cart.items)),
                        total_cost |-> cart.total_cost - cart.items[i].price,
                        item_count |-> cart.item_count - 1],
              result |-> TRUE]
        ELSE [cart |-> cart, result |-> FALSE]

\* remove_item as it would be if it emptied the line and left it in the list
remove_item_keeps_empty_line(cart, item_name) ==
    LET i == FirstLine(cart.items, item_name)
    IN  IF i # 0
        THEN [cart |-> [items      |-> [cart.items EXCEPT ![i].quantity = 0],
                        total_cost |-> cart.total_cost
                                        - cart.items[i].price * cart.items[i].quantity,
                        item_count |-> cart.item_count - cart.items[i].quantity],
              result |-> TRUE]
        ELSE [cart |-> cart, result |-> FALSE]

\* Cart.remove_item: the cart afterwards and the value returned
remove_item(cart, item_name) ==
    LET i == FirstLine(cart.items, item_name)
    IN  IF i # 0
        THEN [cart |-> [items      |-> SubSeq(cart.items, 1, i - 1)
                                        \o SubSeq(cart.items, i + 1, Len(cart.items)),
                        total_cost |-> cart.total_cost
                                        - cart.items[i].price * cart.items[i].quantity,
                        item_count |-> cart.item_count - cart.items[i].quantity],
              result |-> TRUE]
        ELSE [cart |-> cart, result |-> FALSE]

\* clear as it would be without the reset of item_count
clear_keeps_count(cart) ==
    [items |-> << >>, total_cost |-> 0, item_count |-> cart.item_count]

clear(cart) == [items |-> << >>, total_cost |-> 0, item_count |-> 0]

---------------------------------------------------------------------------
(* Session dependencies.                                                   *)

HasKey(dict, key) == \E kv \in dict : kv[1] = key

Lookup(dict, key) == (CHOOSE kv \in dict : kv[1] = key)[2]

Store(dict, key, value) == {kv \in dict : kv[1] # key} \cup {<<key, value>>}

\* dict.get(key, default) on a dict held as a record
DictGet(d, key, default) == IF key \in DOMAIN d THEN d[key] ELSE default

\* CartItem(**item_dict)
CartItemFromDict(d) ==
    [name |-> d.name, price |-> d.price, image |-> d.image,
     quantity |-> DictGet(d, "quantity", 1)]

\* model_dump as it would be if the quantity were left out of the dict
model_dump_without_quantity(item) ==
    [name |-> item.name, price |-> item.price, image |-> item.image]

\* CartItem.model_dump()
model_dump(item) ==
    [name |-> item.name, price |-> item.price, image |-> item.image,
     quantity |-> item.quantity]

EmptyCartData == [items |-> << >>, total_cost |-> 0, item_count |-> 0]

\* get_shopping_cart: the session afterwards (a missing cart is stored empty)
\* and the Cart object rebuilt from it
get_shopping_cart(sess) ==
    LET s1   == IF ~HasKey(sess, "cart") THEN Store(sess, "cart", EmptyCartData) ELSE sess
        data == Lookup(s1, "cart")
        dicts == DictGet(data, "items", << >>)
    IN  [session |-> s1,
         cart    |-> [items      |-> [i \in DOMAIN dicts |-> CartItemFromDict(dicts[i])],
                      total_cost |-> DictGet(data, "total_cost", 0),
                      item_count |-> DictGet(data, "item_count", 0)]]

\* update_shopping_cart: the session afterwards
update_shopping_cart(sess, cart) ==
    Store(sess, "cart",
          [items      |-> [i \in DOMAIN cart.items |-> model_dump(cart.items[i])],
           total_cost |-> cart.total_cost,
           item_count |-> cart.item_count])

---------------------------------------------------------------------------
(* Request handlers: the session afterwards and the response.              *)

\* what a response records: the status, the error or message shown, the
\* handler's own Cart object as rendered or returned, whether
\* update_shopping_cart ran, the names get_item was called with, what
\* remove_item returned, the order a checkout reports, and the two lists of
\* the store page
Response(status, error, cart, wrote, lookups) ==
    [status |-> status, error |-> error, cart |-> cart, wrote |-> wrote,
     lookups |-> lookups, removed |-> FALSE,
     order_items |-> << >>, total_paid |-> 0,
     junk_items |-> << >>, healthy_items |-> << >>]

\* the response of a page that shows the menu by category
WithListing(response) ==
    [response EXCEPT !.junk_items = get_items_by_category("junk"),
                     !.healthy_items = get_items_by_category("healthy")]

\* AddItemRequest: item_name has min_length 1 and max_length 50
AddItemRequestValid(item_name) == Len(item_name) >= 1 /\ Len(item_name) <= 50

\* POST /store/add-item
add_item_handler(sess, item_name) ==
    LET g == get_shopping_cart(sess)
    IN  IF ~AddItemRequestValid(item_name)
        THEN [session |-> g.session,
              resp    |-> Response(422, "validation error", g.cart, FALSE, << >>)]
        ELSE LET got == get_item(item_name)
             IN  IF got.error.raised
                 THEN [session |-> g.session,
                       resp    |-> Response(got.error.status_code, got.error.message,
                                            g.cart, FALSE, <<item_name>>)]
                 ELSE LET cart == add_item(g.cart, got.item)
                      IN  [session |-> update_shopping_cart(g.session, cart),
                           resp    |-> Response(200, "", cart, TRUE, <<item_name>>)]

\* add_item_form_handler as it would be with the cart saved before it is
\* validated
add_item_form_handler_saves_first(sess, item_name) ==
    LET g == get_shopping_cart(sess)
        clean_item_name == sanitize_input(item_name)
    IN  IF clean_item_name = ActionWord
        THEN [session |-> g.session,
              resp    |-> Response(302, "", g.cart, FALSE, << >>)]
        ELSE LET got == get_item(clean_item_name)
             IN  IF got.error.raised
                 THEN [session |-> g.session,
                       resp    |-> Response(200, got.error.message, g.cart, FALSE,
                                            <<clean_item_name>>)]
                 ELSE LET cart == add_item(g.cart, got.item)
                          v    == validate_cart(cart, default_max_items)
                      IN  [session |-> update_shopping_cart(g.session, cart),
                           resp    |-> WithListing(Response(200, v.message, cart, TRUE,
                                                            <<clean_item_name>>))]

\* POST /store/add-item-form
add_item_form_handler(sess, item_name) ==
    LET g == get_shopping_cart(sess)
        clean_item_name == sanitize_input(item_name)
    IN  IF clean_item_name = ActionWord
        THEN [session |-> g.session,
              resp    |-> Response(302, "", g.cart, FALSE, << >>)]
        ELSE LET got == get_item(clean_item_name)
             IN  IF got.error.raised
                 THEN [session |-> g.session,
                       resp    |-> Response(200, got.error.message, g.cart, FALSE,
                                            <<clean_item_name>>)]
                 ELSE LET cart == add_item(g.cart, got.item)
                          v    == validate_cart(cart, default_max_items)
                      IN  IF v.raised
                          THEN [session |-> g.session,
                                resp    |-> Response(200, v.message, cart, FALSE,
                                                     <<clean_item_name>>)]
                          ELSE [session |-> update_shopping_cart(g.session, cart),
                                resp    |-> WithListing(Response(200, "", cart, TRUE,
                                                                 <<clean_item_name>>))]

\* GET /store/
store_page(sess) ==
    LET g == get_shopping_cart(sess)
    IN  [session |-> g.session,
         resp    |-> WithListing(Response(200, "", g.cart, FALSE, << >>))]

\* GET /store/cart, GET /checkout/
read_handler(sess) ==
    LET g == get_shopping_cart(sess)
    IN  [session |-> g.session, resp |-> Response(200, "", g.cart, FALSE, << >>)]

\* checkout_action as it would be with the order read off the cart after
\* it is cleared
checkout_action_reports_after_clear(sess, action) ==
    LET g == get_shopping_cart(sess)
    IN  IF action = "Reset"
        THEN LET cart == clear(g.cart)
             IN  [session |-> update_shopping_cart(g.session, cart),
                  resp    |-> Response(302, "", cart, TRUE, << >>)]
        ELSE IF action = "Return"
        THEN [session |-> g.session, resp |-> Response(302, "", g.cart, FALSE, << >>)]
        ELSE IF action = "Checkout"
        THEN IF g.cart.item_count = 0
             THEN [session |-> g.session,
                   resp    |-> Response(200, "Cart is empty", g.cart, FALSE, << >>)]
             ELSE LET cart == clear(g.cart)
                  IN  [session |-> update_shopping_cart(g.session, cart),
                       resp    |-> [Response(200, "", cart, TRUE, << >>)
                                      EXCEPT !.order_items = cart.items,
                                             !.total_paid = cart.total_cost]]
        ELSE [session |-> g.session,
              resp    |-> Response(200, "An error occurred", g.cart, FALSE, << >>)]

\* POST /checkout/
checkout_action(sess, action) ==
    LET g == get_shopping_cart(sess)
    IN  IF action = "Reset"
        THEN LET cart == clear(g.cart)
             IN  [session |-> update_shopping_cart(g.session, cart),
                  resp    |-> Response(302, "", cart, TRUE, << >>)]
        ELSE IF action = "Return"
        THEN [session |-> g.session, resp |-> Response(302, "", g.cart, FALSE, << >>)]
        ELSE IF action = "Checkout"
        THEN IF g.cart.item_count = 0
             THEN [session |-> g.session,
                   resp    |-> Response(200, "Cart is empty", g.cart, FALSE, << >>)]
             ELSE LET cart == clear(g.cart)
                  IN  [session |-> update_shopping_cart(g.session, cart),
                       resp    |-> [Response(200, "", cart, TRUE, << >>)
                                      EXCEPT !.order_items = g.cart.items,
                                             !.total_paid = g.cart.total_cost]]
        \* the HTTPException(400, "Invalid action") is raised inside the try and
        \* caught by its except Exception, which renders the checkout page
        ELSE [session |-> g.session,
              resp    |-> Response(200, "An error occurred", g.cart, FALSE, << >>)]

\* DELETE /checkout/clear
clear_cart(sess) ==
    LET g    == get_shopping_cart(sess)
        cart == clear(g.cart)
    IN  [session |-> update_shopping_cart(g.session, cart),
         resp    |-> Response(200, "", cart, TRUE, << >>)]

\* remove_item_from_cart as it would be with the cart saved whatever
\* remove_item returned
remove_item_from_cart_always_saves(sess, item_name) ==
    LET g == get_shopping_cart(sess)
        r == remove_item(g.cart, item_name)
    IN  [session |-> update_shopping_cart(g.session, r.cart),
         resp    |-> [Response(200, "", r.cart, TRUE, << >>) EXCEPT !.removed = r.result]]

\* POST /checkout/remove-item
remove_item_from_cart(sess, item_name) ==
    LET g == get_shopping_cart(sess)
        r == remove_item(g.cart, item_name)
    IN  IF r.result
        THEN [session |-> update_shopping_cart(g.session, r.cart),
              resp    |-> [Response(200, "", r.cart, TRUE, << >>) EXCEPT !.removed = TRUE]]
        ELSE [session |-> g.session,
              resp    |-> Response(200, "", r.cart, FALSE, << >>)]

\* the routers: the handler an endpoint is bound to
route(request, sess) ==
    IF request.endpoint = "POST /store/add-item"
    THEN add_item_handler(sess, request.item_name)
    ELSE IF request.endpoint = "POST /store/add-item-form"
    THEN add_item_form_handler(sess, request.item_name)
    ELSE IF request.endpoint = "GET /store/"
    THEN store_page(sess)
    ELSE IF request.endpoint = "POST /checkout/"
    THEN checkout_action(sess, request.action)
    ELSE IF request.endpoint = "DELETE /checkout/clear"
    THEN clear_cart(sess)
    ELSE IF request.endpoint = "POST /checkout/remove-item"
    THEN remove_item_from_cart(sess, request.item_name)
    ELSE read_handler(sess)

\* SessionMiddleware as it would be if it sent the cookie only when the
\* request changed its session
session_cookie_when_changed(cookie, initial, sess) ==
    IF sess # {} /\ sess # initial THEN sess
    ELSE IF sess = {} /\ initial # {} THEN {}
    ELSE cookie

\* SessionMiddleware: the session cookie the client holds once it has the
\* response of a request that came with the session initial and ended with
\* the session sess. A session that is not empty is sent whole with every
\* response; an emptied one expires the cookie.
session_cookie(cookie, initial, sess) ==
    IF sess # {} THEN sess
    ELSE IF initial # {} THEN {}
    ELSE cookie

---------------------------------------------------------------------------
(* The store as a state machine: one client session, one request at a time. *)

ApiNames == {Pizza, Carrot, Tea, LowerPizza, PaddedPizza, InvalidItem,
             XssName, EmptyName, LongName}

FormNames == {Pizza, Carrot, Tea, LowerPizza, PaddedPizza, InvalidItem,
              XssName, AmpName, LongName, ActionWord}

RemoveNames == {Pizza, Carrot, Tea, PaddedPizza, InvalidItem}

FormActions == {"Reset", "Return", "Checkout", "Pay"}

Request(endpoint, item_name, action) ==
    [endpoint |-> endpoint, item_name |-> item_name, action |-> action]

\* the cart a request arriving with this session would load
StoredCart(sess) == get_shopping_cart(sess).cart

StoredQty(sess, name) ==
    LET items == StoredCart(sess).items
        i     == FirstLine(items, name)
    IN  IF i = 0 THEN 0 ELSE items[i].quantity

\* the exploration bound on a request that looks name up to add it
Explored(sess, name) ==
    name \in MenuKeys =>
        /\ StoredCart(sess).item_count < MaxCount
        /\ name # Pizza => StoredQty(sess, name) < MaxSideQty

NotCalled == [called |-> FALSE, error |-> NoError, arg |-> NewCart]

\* the connections a client has requests in flight on
Connections == {"c1", "c2"}

\* a connection with no request in flight
Idle ==
    [busy |-> FALSE, request |-> Request("none", << >>, ""), arrived |-> {},
     session |-> {}, resp |-> Response(0, "", NewCart, FALSE, << >>)]

\* update_shopping_cart has not been called
NoWrite == [called |-> FALSE, cart |-> NewCart]

Handle(request, out) ==
    /\ before' = session
    /\ req' = request
    /\ session' = out.session
    /\ resp' = out.resp
    /\ UNCHANGED probeVars
    /\ UNCHANGED concVars

PostAddItem(item_name) ==
    /\ Explored(session, item_name)
    /\ Handle(Request("POST /store/add-item", item_name, ""),
              add_item_handler(session, item_name))

PostAddItemForm(item_name) ==
    /\ Explored(session, sanitize_input(item_name))
    /\ Handle(Request("POST /store/add-item-form", item_name, ""),
              add_item_form_handler(session, item_name))

GetStorePage ==
    Handle(Request("GET /store/", << >>, ""), store_page(session))

GetCart ==
    Handle(Request("GET /store/cart", << >>, ""), read_handler(session))

GetCheckoutPage ==
    Handle(Request("GET /checkout/", << >>, ""), read_handler(session))

PostCheckout(action) ==
    Handle(Request("POST /checkout/", << >>, action), checkout_action(session, action))

DeleteClear ==
    Handle(Request("DELETE /checkout/clear", << >>, ""), clear_cart(session))

PostRemoveItem(item_name) ==
    Handle(Request("POST /checkout/remove-item", item_name, ""),
           remove_item_from_cart(session, item_name))

Init ==
    /\ session = {}
    /\ before = {}
    /\ req = Request("none", << >>, "")
    /\ resp = Response(0, "", NewCart, FALSE, << >>)
    /\ vcart = NewCart
    /\ vmax = 0
    /\ vres = NotCalled
    /\ flight = [p \in Connections |-> Idle]
    /\ arrived = {}
    /\ lastWrite = NoWrite

Next ==
    \/ \E n \in FormNames : PostAddItemForm(n)
    \/ \E n \in ApiNames : PostAddItem(n)
    \/ GetStorePage
    \/ GetCart
    \/ GetCheckoutPage
    \/ \E a \in FormActions : PostCheckout(a)
    \/ DeleteClear
    \/ \E n \in RemoveNames : PostRemoveItem(n)

Spec == Init /\ [][Next]_vars

---------------------------------------------------------------------------
(* validate_cart applied to carts a session can hold, among them carts     *)
(* saved under an earlier catalog, against several limits.                 *)

StaleItem == FoodItem(InvalidItem, 1, "junk", "invaliditem.jpg", "")

RECURSIVE AddTimes(_, _, _)
AddTimes(cart, food_item, n) ==
    IF n = 0 THEN cart ELSE AddTimes(add_item(cart, food_item), food_item, n - 1)

\* the cart that n further adds of food_item make of cart, written out
AddMany(cart, food_item, n) ==
    IF n = 0 THEN cart
    ELSE LET one == add_item(cart, food_item)
             i   == FirstLine(one.items, food_item.name)
         IN  [items      |-> [one.items EXCEPT ![i].quantity = @ + (n - 1)],
              total_cost |-> one.total_cost + (n - 1) * food_item.price,
              item_count |-> one.item_count + (n - 1)]

ProbeCarts ==
    {AddMany(AddMany(AddMany(NewCart, MenuValue(Pizza), p), StaleItem, s),
             MenuValue(Carrot), c) :
        p \in (max_cart_items - MaxProbeQty)..(max_cart_items + 1),
        s \in 0..MaxProbeQty, c \in 0..MaxProbeQty}
    \cup
    {AddMany(AddMany(NewCart, StaleItem, s), MenuValue(Pizza), p) :
        p \in 0..MaxProbeQty, s \in 0..MaxProbeQty}

ProbeLimits == {0, 1, max_cart_items, max_cart_items + 1}

ValidateCall ==
    /\ ~vres.called
    /\ vres' = [called |-> TRUE, error |-> validate_cart(vcart, vmax), arg |-> vcart]
    /\ UNCHANGED <<vcart, vmax>>
    /\ UNCHANGED appVars
    /\ UNCHANGED concVars

InitValidate ==
    /\ session = {}
    /\ before = {}
    /\ req = Request("none", << >>, "")
    /\ resp = Response(0, "", NewCart, FALSE, << >>)
    /\ vcart \in ProbeCarts
    /\ vmax \in ProbeLimits
    /\ vres = NotCalled
    /\ flight = [p \in Connections |-> Idle]
    /\ arrived = {}
    /\ lastWrite = NoWrite

NextValidate == ValidateCall

SpecValidate == InitValidate /\ [][NextValidate]_vars

---------------------------------------------------------------------------
(* Concurrent requests of one client. The session travels in a signed      *)
(* cookie: a request is handled on the session decoded from the cookie it  *)
(* came with, a dict of its own, and the response carries that session     *)
(* back. The requests share nothing on the server but the catalog.         *)

ConcurrentRequests ==
    {Request("POST /store/add-item", Pizza, ""),
     Request("POST /store/add-item", Carrot, ""),
     Request("GET /store/cart", << >>, ""),
     Request("POST /checkout/remove-item", Pizza, ""),
     Request("DELETE /checkout/clear", << >>, ""),
     Request("POST /checkout/", << >>, "Checkout")}

\* the client sends a request with the cookie it holds and the server runs
\* the handler on the session decoded from it
Serve(c, request) ==
    /\ ~flight[c].busy
    /\ request.endpoint = "POST /store/add-item"
          => StoredCart(session).item_count < MaxConcCount
    /\ LET out == route(request, session)
       IN  /\ flight' = [flight EXCEPT ![c] =
                            [busy |-> TRUE, request |-> request, arrived |-> session,
                             session |-> out.session, resp |-> out.resp]]
           /\ lastWrite' = IF out.resp.wrote
                           THEN [called |-> TRUE, cart |-> out.resp.cart]
                           ELSE lastWrite
    /\ UNCHANGED <<appVars, arrived>>
    /\ UNCHANGED probeVars

\* the response reaches the client, which keeps the cookie it sets
Deliver(c) ==
    /\ flight[c].busy
    /\ before' = session
    /\ session' = session_cookie(session, flight[c].arrived, flight[c].session)
    /\ req' = flight[c].request
    /\ resp' = flight[c].resp
    /\ arrived' = flight[c].arrived
    /\ flight' = [flight EXCEPT ![c] = Idle]
    /\ UNCHANGED lastWrite
    /\ UNCHANGED probeVars

NextConcurrent ==
    \/ \E c \in Connections : \E request \in ConcurrentRequests : Serve(c, request)
    \/ \E c \in Connections : Deliver(c)

SpecConcurrent == Init /\ [][NextConcurrent]_vars

---------------------------------------------------------------------------
(* Vocabulary of the properties.                                           *)

RECURSIVE SumCost(_)
SumCost(items) ==
    IF items = << >> THEN 0
    ELSE Head(items).price * Head(items).quantity + SumCost(Tail(items))

RECURSIVE SumQty(_)
SumQty(items) ==
    IF items = << >> THEN 0 ELSE Head(items).quantity + SumQty(Tail(items))

TotalsConsistent(cart) ==
    /\ cart.total_cost = SumCost(cart.items)
    /\ cart.item_count = SumQty(cart.items)

NoDuplicateNames(cart) ==
    \A i, j \in DOMAIN cart.items :
        cart.items[i].name = cart.items[j].name => i = j

HasLine(cart, name) == \E i \in DOMAIN cart.items : cart.items[i].name = name

LineOf(cart, name) ==
    cart.items[CHOOSE i \in DOMAIN cart.items : cart.items[i].name = name]

\* the cart data held under the session's "cart" key; no key reads as no lines
CartData(sess) ==
    IF \E kv \in sess : kv[1] = "cart"
    THEN (CHOOSE kv \in sess : kv[1] = "cart")[2]
    ELSE [items |-> << >>, total_cost |-> 0, item_count |-> 0]

\* the request left the stored cart as it was: a session that already held
\* a cart is untouched, one that held none holds the empty cart
StoredCartUntouched ==
    /\ CartData(session) = CartData(before)
    /\ (before # {} => session = before)
    /\ ~resp.wrote

IsAdd == req.endpoint \in {"POST /store/add-item", "POST /store/add-item-form"}

IsRemove == req.endpoint = "POST /checkout/remove-item"

IsClear ==
    \/ req.endpoint = "DELETE /checkout/clear"
    \/ req.endpoint = "POST /checkout/" /\ req.action = "Reset"

\* the names of a cart's lines, in the order of the lines
LineNames(cart) == [i \in DOMAIN cart.items |-> cart.items[i].name]

\* every line is of one unit or more at the catalog price of its name, the
\* totals are not negative, and item_count is 0 exactly when no line is left
WellFormed(cart) ==
    /\ \A i \in DOMAIN cart.items :
          /\ cart.items[i].quantity >= 1
          /\ cart.items[i].name \in MenuKeys
          /\ cart.items[i].price = MenuValue(cart.items[i].name).price
    /\ cart.total_cost >= 0
    /\ cart.item_count >= 0
    /\ cart.item_count = 0 <=> cart.items = << >>

\* the request renders the store page with the menu by category
ShowsListing ==
    \/ req.endpoint = "GET /store/"
    \/ req.endpoint = "POST /store/add-item-form" /\ resp.wrote

\* the place of a catalog item in the menu as _initialize_menu builds it
MenuIndex(item) == CHOOSE i \in DOMAIN menu_items : menu_items[i][1] = item.name

\* listing is exactly the catalog's items of that category, each once, in
\* the order of the menu
ListsCategory(listing, category) ==
    /\ \A i \in DOMAIN listing :
          /\ listing[i].name \in MenuKeys
          /\ listing[i] = MenuValue(listing[i].name)
          /\ listing[i].category = category
    /\ \A k \in MenuKeys :
          MenuValue(k).category = category
              => \E i \in DOMAIN listing : listing[i].name = k
    /\ \A i, j \in DOMAIN listing :
          i < j => MenuIndex(listing[i]) < MenuIndex(listing[j])

\* no request is in flight
Quiet == \A c \in Connections : ~flight[c].busy

SingleLine(item, n) ==
    [items      |-> <<[name |-> item.name, price |-> item.price,
                       image |-> item.image, quantity |-> n]>>,
     total_cost |-> n * item.price,
     item_count |-> n]

TooLarge(error) ==
    error = [raised |-> TRUE, status_code |-> 400,
             message |-> "Cart cannot contain more items"]

InvalidItemIn(error) ==
    error = [raised |-> TRUE, status_code |-> 400, message |-> "Invalid item in cart"]

NamesKnown(cart) == \A i \in DOMAIN cart.items : cart.items[i].name \in MenuKeys

---------------------------------------------------------------------------
(* C1: after every add_item, remove_item and clear, in the handler's Cart  *)
(* and in the cart the session holds, total_cost is the sum of price times *)
(* quantity over the lines and item_count is the sum of the quantities.    *)
Thm_C1_Totals ==
    /\ TotalsConsistent(resp.cart)
    /\ TotalsConsistent(CartData(session))

\* a remove that took a line of several units out of a cart and left two lines
Wit_C1_Totals ==
    /\ IsRemove /\ resp.removed
    /\ CartData(before).item_count >= CartData(session).item_count + 2
    /\ Len(CartData(session).items) = 2
    /\ CartData(session).total_cost >= 4

(* C2: the cart stored in the session never holds more than                *)
(* settings.max_cart_items items.                                          *)
Orig_C2_StoredWithinLimit ==
    CartData(session).item_count <= max_cart_items

(* C3: no cart ever has two lines of one name; an add of a catalog item to *)
(* the empty cart, or to the cart whose only line is that item n times,    *)
(* leaves exactly one line of quantity n + 1, item_count n + 1 and         *)
(* total_cost (n + 1) * price: so N adds from empty give one line of N.    *)
Thm_C3_OneLine ==
    /\ NoDuplicateNames(resp.cart)
    /\ NoDuplicateNames(CartData(session))
    /\ \A k \in MenuKeys :
          LET item == MenuValue(k)
              old  == CartData(before)
              n    == old.item_count
          IN  (/\ IsAdd /\ resp.wrote /\ resp.lookups = <<k>>
               /\ (old.items = << >> \/ old = SingleLine(item, n)))
              => /\ resp.cart = SingleLine(item, n + 1)
                 /\ CartData(session) = SingleLine(item, n + 1)
    /\ \A n \in 1..(MaxSideQty + 1) :
          AddTimes(NewCart, MenuValue(Pizza), n) = SingleLine(MenuValue(Pizza), n)

\* the third add in a row of Pizza to a cart that started empty
Wit_C3_OneLine ==
    /\ IsAdd /\ resp.wrote /\ resp.lookups = <<Pizza>>
    /\ CartData(before) = SingleLine(MenuValue(Pizza), 2)
    /\ CartData(session) = SingleLine(MenuValue(Pizza), 3)

(* C4: remove_item of a name the cart has a line for returns true and      *)
(* takes the whole line out: no line has the name afterwards, total_cost   *)
(* is down by price * quantity, item_count by quantity, and the other      *)
(* lines are as they were, in their order.                                 *)
Thm_C4_RemoveWholeLine ==
    LET old == CartData(before)
    IN  (IsRemove /\ HasLine(old, req.item_name)) =>
            LET line == LineOf(old, req.item_name)
                rest == SelectSeq(old.items, LAMBDA l : l.name # req.item_name)
            IN  /\ resp.removed
                /\ ~HasLine(resp.cart, req.item_name)
                /\ resp.cart.items = rest
                /\ Len(rest) = Len(old.items) - 1
                /\ resp.cart.total_cost = old.total_cost - line.price * line.quantity
                /\ resp.cart.item_count = old.item_count - line.quantity
                /\ CartData(session) = resp.cart

\* a line of three units removed from between two other lines
Wit_C4_RemoveWholeLine ==
    /\ IsRemove /\ resp.removed
    /\ Len(CartData(before).items) = 3
    /\ CartData(before).items[2].name = req.item_name
    /\ CartData(before).items[2].quantity = 3
    /\ Len(CartData(session).items) = 2

(* C5: remove_item of a name the cart has no line for returns false and    *)
(* leaves lines, total_cost and item_count as they were, and the request   *)
(* does not call update_shopping_cart: the stored cart stays as it was.    *)
Thm_C5_RemoveAbsent ==
    (IsRemove /\ ~HasLine(CartData(before), req.item_name)) =>
        /\ ~resp.removed
        /\ resp.cart = CartData(before)
        /\ StoredCartUntouched

\* a name that is not in a cart of two lines
Wit_C5_RemoveAbsent ==
    /\ IsRemove /\ ~resp.removed
    /\ Len(CartData(before).items) = 2
    /\ CartData(before).item_count >= 3
    /\ req.item_name \in MenuKeys

(* C6: clear leaves no lines, total_cost 0 and item_count 0 whatever the   *)
(* cart was, clearing the cleared cart changes nothing, and DELETE         *)
(* /checkout/clear and the Reset action store that empty cart.             *)
Thm_C6_Clear ==
    /\ clear(clear(resp.cart)) = clear(resp.cart)
    /\ clear(resp.cart) = [items |-> << >>, total_cost |-> 0, item_count |-> 0]
    /\ IsClear =>
          /\ resp.cart = [items |-> << >>, total_cost |-> 0, item_count |-> 0]
          /\ resp.wrote
          /\ CartData(session) = resp.cart
          /\ session # {}
          /\ (CartData(before).items = << >> => CartData(session) = CartData(before))

\* a clear of a cart of three lines
Wit_C6_Clear ==
    /\ IsClear
    /\ Len(CartData(before).items) = 3
    /\ CartData(before).item_count >= 4

(* C7: update_shopping_cart followed by get_shopping_cart gives back the   *)
(* cart that was saved: the same lines (name, price, image, quantity) in   *)
(* the same order, the same total_cost and item_count.                     *)
Thm_C7_RoundTrip ==
    /\ get_shopping_cart(update_shopping_cart(before, resp.cart)).cart = resp.cart
    /\ get_shopping_cart(update_shopping_cart({}, resp.cart)).cart = resp.cart
    /\ resp.wrote => get_shopping_cart(session).cart = resp.cart

\* a saved cart of three lines, one of them of several units
Wit_C7_RoundTrip ==
    /\ resp.wrote
    /\ Len(resp.cart.items) = 3
    /\ resp.cart.items[2].quantity = 2
    /\ resp.cart.items[1].quantity >= 3

(* C8, as claimed: validate_cart succeeds exactly when item_count is at    *)
(* most max_items and every line names a catalog item, fails as too large  *)
(* when item_count is above max_items and as an invalid item when some     *)
(* line names no catalog entry, and changes nothing.                       *)
Orig_C8_Validate ==
    vres.called =>
        /\ ~vres.error.raised <=> (vcart.item_count <= vmax /\ NamesKnown(vcart))
        /\ vcart.item_count > vmax => TooLarge(vres.error)
        /\ ~NamesKnown(vcart) => InvalidItemIn(vres.error)
        /\ vcart = vres.arg

(* C8, amended: the size is checked first, so a cart above max_items fails *)
(* as too large whatever its lines name, and the invalid-item error is for *)
(* a cart within max_items with a line that names no catalog entry.        *)
Thm_C8_Validate ==
    vres.called =>
        /\ ~vres.error.raised <=> (vcart.item_count <= vmax /\ NamesKnown(vcart))
        /\ vcart.item_count > vmax => TooLarge(vres.error)
        /\ (vcart.item_count <= vmax /\ ~NamesKnown(vcart)) => InvalidItemIn(vres.error)
        /\ vcart = vres.arg

\* the limit itself passes
Wit_C8_Validate ==
    /\ vres.called
    /\ vmax = max_cart_items
    /\ vcart.item_count = max_cart_items
    /\ ~vres.error.raised

(* C9: an add request turned down because the cart would go over the       *)
(* maximum leaves the cart stored in the session as it was.                *)
Thm_C9_RejectedAddKeepsCart ==
    (IsAdd /\ resp.error = "Cart cannot contain more items") =>
        /\ StoredCartUntouched
        /\ session = before

\* the add that would have been the 51st item
Wit_C9_RejectedAddKeepsCart ==
    /\ IsAdd
    /\ resp.error = "Cart cannot contain more items"
    /\ CartData(before).item_count = max_cart_items
    /\ Len(CartData(before).items) >= 2

Orig_C11_SanitizedLookup ==
    \A i \in DOMAIN resp.lookups :
        resp.lookups[i] = sanitize_input(req.item_name)

(* C12: get_items_by_category(c) is exactly the catalog's items of       *)
(* category c, each once, in the order the catalog defines them: Pizza,    *)
(* Fries, Cookie, Hotdog, Chocolate, Icecream for junk. The junk and the   *)
(* healthy result share no item and together hold all ten catalog items.   *)
Thm_C12_ByCategory ==
    ShowsListing =>
        LET junk    == resp.junk_items
            healthy == resp.healthy_items
        IN  /\ ListsCategory(junk, "junk")
            /\ ListsCategory(healthy, "healthy")
            /\ [i \in DOMAIN junk |-> junk[i].name]
                   = <<Pizza, Fries, Cookie, Hotdog, Chocolate, Icecream>>
            /\ [i \in DOMAIN healthy |-> healthy[i].name]
                   = <<Carrot, Tomato, Corn, Tea>>
            /\ \A i \in DOMAIN junk : \A j \in DOMAIN healthy : junk[i] # healthy[j]
            /\ Len(junk) + Len(healthy) = 10
            /\ \A k \in MenuKeys :
                  \/ \E i \in DOMAIN junk : junk[i].name = k
                  \/ \E j \in DOMAIN healthy : healthy[j].name = k

\* the store page shown to a session whose cart holds items
Wit_C12_ByCategory ==
    /\ req.endpoint = "GET /store/"
    /\ Len(resp.junk_items) = 6
    /\ Len(resp.healthy_items) = 4
    /\ resp.cart.item_count >= 2

(* C13, as claimed: under any interleaving of concurrent requests on one  *)
(* session the stored cart changes only at an update_shopping_cart write,  *)
(* every stored cart satisfies the totals invariants, and once all         *)
(* requests are answered the stored cart is the one the last call of       *)
(* update_shopping_cart wrote.                                             *)
Orig_C13_LastWriterWins ==
    /\ CartData(session) # CartData(before) => resp.wrote
    /\ TotalsConsistent(CartData(session))
    /\ (Quiet /\ lastWrite.called) => CartData(session) = lastWrite.cart

(* C13, amended: each request works on the session decoded from the cookie *)
(* it came with and mutates only its own cart, whatever the other requests *)
(* do, and within a request the session's cart changes only at             *)
(* update_shopping_cart. The cart the client holds is the one of the       *)
(* session of the last response delivered, whether or not that request     *)
(* called update_shopping_cart; every such cart satisfies the totals       *)
(* invariants.                                                             *)
Thm_C13_OwnCopy ==
    /\ \A c \in Connections :
          flight[c].busy =>
              LET out == route(flight[c].request, flight[c].arrived)
              IN  /\ flight[c].session = out.session
                  /\ flight[c].resp = out.resp
                  /\ TotalsConsistent(flight[c].resp.cart)
                  /\ TotalsConsistent(CartData(flight[c].session))
                  /\ CartData(flight[c].session) =
                         IF flight[c].resp.wrote THEN flight[c].resp.cart
                                                 ELSE CartData(flight[c].arrived)
    /\ TotalsConsistent(CartData(session))
    /\ req.endpoint = "none" => session = {}
    /\ req.endpoint # "none" =>
          /\ session = route(req, arrived).session
          /\ CartData(session) = IF resp.wrote THEN resp.cart ELSE CartData(arrived)

\* the response of a request that only read the cart, sent before an add was
\* answered, arrives after it and takes the added item out of the stored cart
Wit_C13_OwnCopy ==
    /\ Quiet
    /\ req.endpoint = "GET /store/cart"
    /\ ~resp.wrote
    /\ CartData(before).item_count = 2
    /\ CartData(session).item_count = 1
    /\ lastWrite.called /\ lastWrite.cart = CartData(before)

(* C14: the Checkout action on a cart with item_count above 0 reports as  *)
(* total_paid the cart's total_cost and as order_items its lines as they  *)
(* were before the request, and stores the empty cart with zero totals;   *)
(* on a cart with item_count 0 it reports an error and leaves the stored  *)
(* cart as it was.                                                         *)
Thm_C14_Checkout ==
    LET old == CartData(before)
    IN  (req.endpoint = "POST /checkout/" /\ req.action = "Checkout") =>
            /\ old.item_count > 0 =>
                  /\ resp.status = 200 /\ resp.error = ""
                  /\ resp.total_paid = old.total_cost
                  /\ resp.order_items = old.items
                  /\ resp.wrote
                  /\ session # {}
                  /\ CartData(session) =
                         [items |-> << >>, total_cost |-> 0, item_count |-> 0]
            /\ old.item_count = 0 =>
                  /\ resp.error = "Cart is empty"
                  /\ resp.order_items = << >>
                  /\ StoredCartUntouched

\* a checkout of two lines, four units in all
Wit_C14_Checkout ==
    /\ req.endpoint = "POST /checkout/" /\ req.action = "Checkout"
    /\ Len(resp.order_items) = 2
    /\ CartData(before).item_count = 4
    /\ resp.total_paid = CartData(before).total_cost
    /\ CartData(session).items = << >>

(* C15: a POST /checkout/ whose action is none of Reset, Return and        *)
(* Checkout is answered with status 400, invalid action, and leaves the    *)
(* stored cart as it was.                                                  *)
Orig_C15_InvalidAction ==
    (/\ req.endpoint = "POST /checkout/"
     /\ req.action \notin {"Reset", "Return", "Checkout"})
    => /\ resp.status = 400
       /\ resp.error = "Invalid action"
       /\ CartData(session) = CartData(before)

(* C16: cart lines are kept in insertion order. An add of a name the     *)
(* cart has no line for puts its line last, a repeat add moves no line,    *)
(* a remove keeps the other lines in their relative order, a clear or a    *)
(* checkout leaves no line, and any other request leaves the order as it   *)
(* was: so the lines are in the order in which each present name was first *)
(* added since it was last absent.                                         *)
Thm_C16_InsertionOrder ==
    LET old == LineNames(CartData(before))
        new == LineNames(CartData(session))
    IN  /\ resp.wrote => LineNames(resp.cart) = new
        /\ ~resp.wrote => new = old
        /\ (IsAdd /\ resp.wrote) =>
              LET k == resp.lookups[1]
              IN  new = IF \E i \in DOMAIN old : old[i] = k
                        THEN old
                        ELSE Append(old, k)
        /\ IsRemove => new = SelectSeq(old, LAMBDA n : n # req.item_name)
        /\ (IsClear \/ (req.endpoint = "POST /checkout/" /\ req.action = "Checkout"))
              => new = << >>

\* a repeat add of the first of three lines, the last of them of several units
Wit_C16_InsertionOrder ==
    /\ IsAdd /\ resp.wrote
    /\ LineNames(CartData(before)) = <<Carrot, Tea, Pizza>>
    /\ resp.lookups = <<Carrot>>
    /\ LineNames(CartData(session)) = <<Carrot, Tea, Pizza>>
    /\ CartData(session).items[3].quantity >= 2

(* C17: in every cart the requests reach from the empty cart, every line   *)
(* has quantity 1 or more and the catalog price of its name, total_cost    *)
(* and item_count are not negative, and item_count is 0 exactly when the   *)
(* cart has no lines, so the checkout's test on item_count agrees with the *)
(* list of lines.                                                          *)
Thm_C17_WellFormed ==
    /\ WellFormed(resp.cart)
    /\ WellFormed(CartData(session))
    /\ WellFormed(CartData(before))
    /\ (req.endpoint = "POST /checkout/" /\ req.action = "Checkout") =>
          (resp.error = "Cart is empty" <=> CartData(before).items = << >>)

\* the only line, of three units, taken out: no line and no item is left
Wit_C17_WellFormed ==
    /\ IsRemove /\ resp.removed
    /\ Len(CartData(before).items) = 1
    /\ CartData(before).items[1].quantity = 3
    /\ CartData(session).items = << >>
    /\ CartData(session).item_count = 0

=============================================================================
